---- MODULE Spec2Model ----
(***************************************************************************)
(* A model of catgit's traversal-and-filtering engine                      *)
(* (src/catgit/catgit.py): main's include-only set-up, the single sorted   *)
(* walk of concatenate_and_generate_tree.traverse, the text/binary         *)
(* classifier is_text_file, the ThreadPoolExecutor(max_workers=8) that     *)
(* runs process_file, and the collection of the futures.                   *)
(*                                                                         *)
(* Representation.                                                         *)
(*   - A relative path is the sequence of its components; the traversal    *)
(*     root is <<>>; the string '.' that get_included_files_and_dirs adds  *)
(*     to included_dirs is the path <<".">>.                               *)
(*   - A path string is matched by the glob patterns as a sequence of      *)
(*     tokens: each name is cut into its stem and extension, components    *)
(*     are joined by the token "/", and "*" in a pattern matches any run   *)
(*     of tokens (fnmatch's "*" matches any run of characters, "/" too).   *)
(*   - A file's content is a run-length encoded byte string: a sequence    *)
(*     of runs [byte, n].                                                  *)
(*   - A tree line is a record of the pieces the f-string concatenates     *)
(*     (prefix, connector, entry, "/" for a directory, annotation) and the *)
(*     relative path of the entry that produced it.                        *)
(***************************************************************************)
EXTENDS Integers, Sequences, FiniteSets, TLC

VARIABLES
    fs,                          \* the directory tree under the root: path -> node
    failing,                     \* files whose read inside process_file raises
    cwd_at_root,                 \* whether os.getcwd() is the traversal root
    include_only,                \* args.include_only
    catgitinclude_enabled,       \* config catgitinclude_enabled
    compiled_catgitinclude_patterns,  \* parse_catgitinclude's result
    compiled_catgit_patterns,    \* parse_catgitignore's result
    ignored_git_files,           \* get_all_git_ignored_files's result
    ignore_gitignored,           \* config ignore_gitignored
    display_gitignored_files,    \* config display_gitignored_files
    display_catgitignored_files, \* config display_catgitignored_files
    markup_catgitignored_files,  \* config markup_catgitignored_files
    always_exclude_dirs,         \* config always_exclude_dirs
    include_tree_view,           \* config include_tree_view_in_file
    output_method,               \* main's output_method once the editor is checked
    included_files,              \* main's included_files (NoneValue when None)
    included_dirs,               \* main's included_dirs  (NoneValue when None)
    pc,                          \* where main is
    message,                     \* what main printed to the user when it gave up
    stack,                       \* the active calls of traverse, innermost last
    listed,                      \* directories whose os.listdir the walk has called
    tree_output,                 \* the tree lines appended so far
    futures,                     \* the submitted tasks, in submission order
    collected,                   \* how many futures the collection loop has passed
    concatenated_output,         \* the blocks collected so far
    sample_result,               \* the classifier's answer (classifier runs)
    overtaken,                   \* whether a task completed before one submitted earlier
    output                       \* what main handed to the terminal or the editor

inputs == <<fs, failing, cwd_at_root, include_only, catgitinclude_enabled,
            compiled_catgitinclude_patterns, compiled_catgit_patterns,
            ignored_git_files, ignore_gitignored, display_gitignored_files,
            display_catgitignored_files, markup_catgitignored_files,
            always_exclude_dirs, include_tree_view, output_method>>

vars == <<inputs, included_files, included_dirs, pc, message, stack, listed,
          tree_output, futures, collected, concatenated_output,
          sample_result, overtaken, output>>

-----------------------------------------------------------------------------
(* Bounds of the model and constants of the program. *)

\* Number of text files in the flat tree that overfills the worker pool.
NumFlat == 9

\* Largest number of runs in a classified byte string.
MaxRuns == 2

\* ThreadPoolExecutor(max_workers=8).
max_workers == 8

\* f.read(1024) in is_text_file.
SampleSize == 1024

\* percentage_of_text_chars > 70.
TextThreshold == 70

\* Python's None, for included_files and included_dirs.
NoneValue == {<<"None">>}

-----------------------------------------------------------------------------
(* Sequences. *)

Range(s) == {s[i] : i \in DOMAIN s}

IsPrefix(p, q) == Len(p) <= Len(q) /\ SubSeq(q, 1, Len(p)) = p

IsProperPrefix(p, q) == Len(p) < Len(q) /\ SubSeq(q, 1, Len(p)) = p

Front(s) == SubSeq(s, 1, Len(s) - 1)

Last(s) == s[Len(s)]

RECURSIVE SumSeq(_)
SumSeq(s) == IF s = <<>> THEN 0 ELSE Head(s) + SumSeq(Tail(s))

-----------------------------------------------------------------------------
(* The file system under the traversal root. *)

File(content) == [kind |-> "file", content |-> content, readable |-> TRUE, listable |-> TRUE]

UnreadableFile(content) == [kind |-> "file", content |-> content, readable |-> FALSE, listable |-> TRUE]

Dir(listable) == [kind |-> "dir", content |-> <<>>, readable |-> TRUE, listable |-> listable]

Run(b, k) == [byte |-> b, n |-> k]

\* "hello\n"
Hello == <<Run(104, 5), Run(10, 1)>>

\* 50 NUL bytes
Zeros == <<Run(0, 50)>>

\* 7 text bytes and 3 non-text bytes: exactly 70% text
Seventy == <<Run(97, 7), Run(0, 3)>>

\* 8 text bytes and 2 non-text bytes
Eighty == <<Run(97, 8), Run(0, 2)>>

\* 1024 text bytes followed by 3000 NUL bytes
LongTail == <<Run(97, 1024), Run(0, 3000)>>

\* Every name of the model, in the order Python's sorted() gives strings.
FlatNames == <<"f01", "f02", "f03", "f04", "f05", "f06", "f07", "f08", "f09", "f10",
               "f11", "f12">>

SortedNames == <<".gitignore", "a.txt", "b.bin", "build", "debug.log", "docs">>
               \o FlatNames \o <<"main.py", "src", "x.txt">>

Rank(name) == CHOOSE i \in DOMAIN SortedNames : SortedNames[i] = name

\* The tokens of a name: stem and extension.
NameTokens(name) ==
    CASE name = "a.txt"     -> <<"a", ".txt">>
      [] name = "x.txt"     -> <<"x", ".txt">>
      [] name = "b.bin"     -> <<"b", ".bin">>
      [] name = "debug.log" -> <<"debug", ".log">>
      [] name = "main.py"   -> <<"main", ".py">>
      [] OTHER              -> <<name>>

\* The project tree: text files, a file of varying content, a hard-excluded
\* directory and a subdirectory.
TreeFS(bbin, docs) ==
    (<<".gitignore">>        :> File(Hello)) @@
    (<<"a.txt">>             :> File(Hello)) @@
    (<<"b.bin">>             :> bbin) @@
    (<<"build">>             :> Dir(TRUE)) @@
    (<<"build", "x.txt">>    :> File(Hello)) @@
    (<<"docs">>              :> docs) @@
    (<<"docs", "debug.log">> :> File(<<>>)) @@
    (<<"docs", "main.py">>   :> File(LongTail))

\* A tree with a directory that cannot be listed, followed by a sibling, inside
\* a directory that is followed by a sibling.
NestedFS ==
    (<<"a.txt">>                  :> File(Hello)) @@
    (<<"docs">>                   :> Dir(TRUE)) @@
    (<<"docs", "debug.log">>      :> File(Zeros)) @@
    (<<"docs", "src">>            :> Dir(FALSE)) @@
    (<<"docs", "src", "main.py">> :> File(Hello)) @@
    (<<"docs", "x.txt">>          :> File(Hello)) @@
    (<<"x.txt">>                  :> File(Hello))

\* A flat tree of NumFlat text files.
FlatFS == [p \in {<<FlatNames[i]>> : i \in 1..NumFlat} |-> File(Hello)]

\* A tree holding one file, for the classifier.
SampleFS(node) == (<<"a.txt">> :> node)

IsDir(f, p) == p \in DOMAIN f /\ f[p].kind = "dir"

IsFile(f, p) == p \in DOMAIN f /\ f[p].kind = "file"

Children(f, p) == {q \in DOMAIN f : Len(q) = Len(p) + 1 /\ IsPrefix(p, q)}

RECURSIVE SortNames(_)
SortNames(S) ==
    IF S = {} THEN <<>>
    ELSE LET m == CHOOSE x \in S : \A y \in S : Rank(x) <= Rank(y)
         IN  <<m>> \o SortNames(S \ {m})

\* sorted(os.listdir(current_path))
listdir(f, p) == SortNames({Last(q) : q \in Children(f, p)})

-----------------------------------------------------------------------------
(* is_text_file *)

RECURSIVE Take(_, _)
Take(content, k) ==
    IF content = <<>> \/ k = 0 THEN <<>>
    ELSE IF Head(content).n <= k
         THEN <<Head(content)>> \o Take(Tail(content), k - Head(content).n)
         ELSE <<Run(Head(content).byte, k)>>

ByteLen(content) == SumSeq([i \in DOMAIN content |-> content[i].n])

text_chars == {7, 8, 9, 10, 12, 13, 27} \cup (32..126)

nontext_char_count(content) ==
    SumSeq([i \in DOMAIN content |->
               IF content[i].byte \notin text_chars THEN content[i].n ELSE 0])

\* percentage_of_text_chars > 70, with 100 * (1 - nontext/len) kept exact by
\* multiplying both sides by len (the double-precision value and the exact one
\* compare alike with 70 for every len in 1..1024 and every count).
percentage_above(content) ==
    100 * (ByteLen(content) - nontext_char_count(content)) > TextThreshold * ByteLen(content)

percentage_at_or_above(content) ==
    100 * (ByteLen(content) - nontext_char_count(content)) >= TextThreshold * ByteLen(content)

is_text_file_ge(node) ==
    IF ~node.readable THEN FALSE
    ELSE LET content == Take(node.content, SampleSize)
         IN  IF ByteLen(content) > 0 THEN percentage_at_or_above(content) ELSE TRUE

is_text_file(node) ==
    IF ~node.readable THEN FALSE
    ELSE LET content == Take(node.content, SampleSize)
         IN  IF ByteLen(content) > 0 THEN percentage_above(content) ELSE TRUE

-----------------------------------------------------------------------------
(* Glob patterns: fnmatch.translate, re.compile and pattern.match *)

RECURSIVE GlobMatch(_, _)
GlobMatch(pattern, s) ==
    IF pattern = <<>> THEN s = <<>>
    ELSE IF Head(pattern) = "*"
         THEN GlobMatch(Tail(pattern), s) \/ (s # <<>> /\ GlobMatch(pattern, Tail(s)))
         ELSE s # <<>> /\ Head(s) = Head(pattern) /\ GlobMatch(Tail(pattern), Tail(s))

\* The relative path as the string os.path.join builds.
RECURSIVE PathTokens(_)
PathTokens(p) ==
    IF p = <<>> THEN <<>>
    ELSE IF Len(p) = 1 THEN NameTokens(p[1])
         ELSE NameTokens(p[1]) \o <<"/">> \o PathTokens(Tail(p))

AnyMatch(patterns, tokens) == \E i \in DOMAIN patterns : GlobMatch(patterns[i], tokens)

PatLog == <<"*", ".log">>

PatDocsDir == <<"docs", "/">>

PatDocsPy == <<"docs", "/", "*", ".py">>

PatTxt == <<"*", ".txt">>

-----------------------------------------------------------------------------
(* process_file *)

\* A block is the string process_file returns: the path of its header, whether
\* it is the SKIPPED form, and the size the header states.  raised marks a
\* call that ends in an exception instead of a return value.
Block(full_path, skipped, size) ==
    [path |-> full_path, skipped |-> skipped, size |-> size, raised |-> FALSE]

Raised(full_path) == [path |-> full_path, skipped |-> FALSE, size |-> 0, raised |-> TRUE]

process_file_uncaught(f, fails, full_path) ==
    IF full_path \in fails
    THEN Raised(full_path)
    ELSE Block(full_path, FALSE, ByteLen(f[full_path].content))

process_file(f, fails, full_path) ==
    IF full_path \in fails
    THEN Block(full_path, TRUE, 0)
    ELSE Block(full_path, FALSE, ByteLen(f[full_path].content))

-----------------------------------------------------------------------------
(* get_included_files_and_dirs *)

\* os.walk reaches a file when every directory above it can be listed.
Walkable(f, p) ==
    \A k \in 1..(Len(p) - 1) : f[SubSeq(p, 1, k)].listable

Ancestors(p) == {SubSeq(p, 1, k) : k \in 1..(Len(p) - 1)}

get_included_files(f, patterns) ==
    {p \in DOMAIN f : IsFile(f, p) /\ Walkable(f, p) /\ AnyMatch(patterns, PathTokens(p))}

get_included_dirs(f, patterns) ==
    LET files == get_included_files(f, patterns)
    IN  UNION {Ancestors(p) : p \in files} \cup (IF files = {} THEN {} ELSE {<<".">>})

-----------------------------------------------------------------------------
(* concatenate_and_generate_tree.traverse *)

files_to_skip == {".gitignore", ".catgitignore", ".catgitinclude"}

\* os.path.isdir(relative_path): the relative path is resolved against the
\* process's working directory.
isdir_relative(rel) == cwd_at_root /\ IsDir(fs, rel)

is_catgit_ignored(rel, patterns) ==
    LET normalized_path == IF isdir_relative(rel) THEN PathTokens(rel) \o <<"/">>
                           ELSE PathTokens(rel)
    IN  AnyMatch(patterns, normalized_path)

EntriesUnfiltered(current) == listdir(fs, current)

\* The entries a call of traverse iterates over: the sorted listing without
\* the always-excluded directories.
Entries(current) ==
    SelectSeq(listdir(fs, current),
              LAMBDA e : ~(IsDir(fs, current \o <<e>>) /\ e \in always_exclude_dirs))

\* The branch the loop body takes for one entry.
StepOutcomeNoAllowList(rel) ==
    IF include_only /\ included_files = NoneValue THEN "type_error"
    ELSE IF ignore_gitignored /\ rel \in ignored_git_files THEN "git_ignored"
    ELSE IF compiled_catgit_patterns # <<>> /\ is_catgit_ignored(rel, compiled_catgit_patterns)
         THEN "catgit_ignored"
    ELSE IF IsDir(fs, rel) THEN "directory"
    ELSE IF Last(rel) \in files_to_skip THEN "skipped"
    ELSE IF is_text_file(fs[rel]) THEN "text"
    ELSE "binary"

StepOutcome(rel) ==
    IF include_only /\ included_files = NoneValue THEN "type_error"
    ELSE IF include_only /\ rel \notin included_files /\ rel \notin included_dirs
         THEN "not_included"
    ELSE IF ignore_gitignored /\ rel \in ignored_git_files THEN "git_ignored"
    ELSE IF compiled_catgit_patterns # <<>> /\ is_catgit_ignored(rel, compiled_catgit_patterns)
         THEN "catgit_ignored"
    ELSE IF IsDir(fs, rel) THEN "directory"
    ELSE IF Last(rel) \in files_to_skip THEN "skipped"
    ELSE IF is_text_file(fs[rel]) THEN "text"
    ELSE "binary"

Line(prefix, connector, rel, note) ==
    [prefix |-> prefix, connector |-> connector, entry |-> Last(rel),
     slash |-> IsDir(fs, rel), note |-> note, path |-> rel]

\* The tree lines one entry appends.
StepLinesBinaryPlain(outcome, prefix, connector, rel) ==
    CASE outcome = "git_ignored" ->
             IF display_gitignored_files
             THEN <<Line(prefix, connector, rel, "# (Git-ignored)")>> ELSE <<>>
      [] outcome = "catgit_ignored" ->
             IF display_catgitignored_files
             THEN <<Line(prefix, connector, rel, "# (catgit-ignored)")>> ELSE <<>>
      [] outcome \in {"directory", "text", "binary"} -> <<Line(prefix, connector, rel, "")>>
      [] OTHER -> <<>>

StepLines(outcome, prefix, connector, rel) ==
    CASE outcome = "git_ignored" ->
             IF display_gitignored_files
             THEN <<Line(prefix, connector, rel, "# (Git-ignored)")>> ELSE <<>>
      [] outcome = "catgit_ignored" ->
             IF display_catgitignored_files
             THEN <<Line(prefix, connector, rel, "# (catgit-ignored)")>> ELSE <<>>
      [] outcome \in {"directory", "text"} -> <<Line(prefix, connector, rel, "")>>
      [] outcome = "binary" -> <<Line(prefix, connector, rel, "[Binary/Non-text]")>>
      [] OTHER -> <<>>

CallNoErrorCheck(current, prefix) ==
    IF include_only /\ current # <<>> /\ current \notin included_dirs THEN <<>>
    ELSE <<[current |-> current, prefix |-> prefix, entries |-> Entries(current), index |-> 1]>>

\* A call traverse(current, prefix, relative_path) up to its loop: the frames
\* it adds to the stack (none when it returns at once).
Call(current, prefix) ==
    IF include_only /\ current # <<>> /\ current \notin included_dirs THEN <<>>
    ELSE IF current # <<>> /\ ~fs[current].listable THEN <<>>
    ELSE <<[current |-> current, prefix |-> prefix, entries |-> Entries(current), index |-> 1]>>

\* Whether the call gets as far as os.listdir.
CallLists(current) ==
    ~(include_only /\ current # <<>> /\ current \notin included_dirs)

\* Calls whose loop has run out return to their caller.
RECURSIVE Unwind(_)
Unwind(st) ==
    IF st = <<>> THEN <<>>
    ELSE IF Last(st).index > Len(Last(st).entries) THEN Unwind(Front(st))
    ELSE st

\* The result slot of a future that has not completed.
NoBlock == [path |-> <<>>, skipped |-> FALSE, size |-> 0, raised |-> FALSE]

\* executor.submit(process_file, full_path, extra_delimiter)
submit(futs, full_path) ==
    Append(futs, [path |-> full_path, state |-> "queued", result |-> NoBlock])

-----------------------------------------------------------------------------
(* The initial states: the inputs of one invocation. *)

Bool == {TRUE, FALSE}

\* (include_only, catgitinclude_enabled, compiled_catgitinclude_patterns)
IncludeChoices ==
    {<<FALSE, TRUE, <<>>>>, <<TRUE, FALSE, <<>>>>, <<TRUE, TRUE, <<>>>>,
     <<TRUE, TRUE, <<PatDocsPy>>>>, <<TRUE, TRUE, <<PatTxt, PatLog>>>>}

\* (fs, failing)
TreeChoices ==
    {<<TreeFS(File(Zeros), Dir(TRUE)), {}>>,
     <<TreeFS(File(Seventy), Dir(TRUE)), {<<"a.txt">>}>>,
     <<TreeFS(File(Eighty), Dir(TRUE)), {<<"docs", "main.py">>}>>,
     <<TreeFS(UnreadableFile(Hello), Dir(FALSE)), {}>>,
     <<NestedFS, {}>>}

GitIgnoredChoices ==
    {{}, {<<"a.txt">>}, {<<"docs">>}, {<<"b.bin">>, <<"docs", "debug.log">>}}

CatgitPatternChoices == {<<>>, <<PatLog>>, <<PatDocsDir>>}

DefaultExcludeDirs == {".git", "__pycache__", ".venv", "env", "venv", "build", "dist",
                       "catgit.egg-info"}

\* Nothing emitted yet.
NoOutput == [tree_header |-> "none", tree_view |-> <<>>, content |-> <<>>]

OutputMethods == {"terminal", "editor"}

Idle ==
    /\ included_files = NoneValue
    /\ included_dirs = NoneValue
    /\ message = ""
    /\ stack = <<>>
    /\ listed = {}
    /\ tree_output = <<>>
    /\ futures = <<>>
    /\ collected = 0
    /\ concatenated_output = <<>>
    /\ sample_result = "none"
    /\ overtaken = FALSE
    /\ output = NoOutput

InitTree ==
    /\ \E t \in TreeChoices : fs = t[1] /\ failing = t[2]
    /\ \E c \in IncludeChoices :
          /\ include_only = c[1]
          /\ catgitinclude_enabled = c[2]
          /\ compiled_catgitinclude_patterns = c[3]
    /\ cwd_at_root \in Bool
    /\ compiled_catgit_patterns \in CatgitPatternChoices
    /\ ignored_git_files \in GitIgnoredChoices
    /\ ignore_gitignored \in Bool
    /\ display_gitignored_files \in Bool
    /\ display_catgitignored_files \in Bool
    /\ markup_catgitignored_files \in Bool
    /\ always_exclude_dirs = DefaultExcludeDirs
    /\ include_tree_view \in Bool
    /\ output_method \in OutputMethods
    /\ pc = "start"
    /\ Idle

InitFlat ==
    /\ fs = FlatFS
    /\ failing \in {{}, {<<FlatNames[2]>>}}
    /\ \E c \in {<<FALSE, TRUE, <<>>>>, <<TRUE, TRUE, <<>>>>, <<TRUE, FALSE, <<>>>>} :
          /\ include_only = c[1]
          /\ catgitinclude_enabled = c[2]
          /\ compiled_catgitinclude_patterns = c[3]
    /\ cwd_at_root = TRUE
    /\ compiled_catgit_patterns = <<>>
    /\ ignored_git_files = {}
    /\ ignore_gitignored = TRUE
    /\ display_gitignored_files = TRUE
    /\ display_catgitignored_files = TRUE
    /\ markup_catgitignored_files = TRUE
    /\ always_exclude_dirs = DefaultExcludeDirs
    /\ include_tree_view \in Bool
    /\ output_method \in OutputMethods
    /\ pc = "start"
    /\ Idle

Init == InitTree \/ InitFlat

-----------------------------------------------------------------------------
(* main, up to the call of concatenate_and_generate_tree *)

\* Lines 481-486: include-only mode with no compiled pattern.
MainAbort ==
    /\ pc = "start"
    /\ include_only /\ catgitinclude_enabled
    /\ compiled_catgitinclude_patterns = <<>>
    /\ message' = "No include patterns found"
    /\ pc' = "aborted"
    /\ UNCHANGED <<inputs, included_files, included_dirs, stack, listed, tree_output,
                   futures, collected, concatenated_output, sample_result, overtaken, output>>

\* Lines 481-526: the include sets, then the executor is created and
\* traverse(path, relative_path='') runs up to its loop.
MainStart ==
    /\ pc = "start"
    /\ ~(include_only /\ catgitinclude_enabled /\ compiled_catgitinclude_patterns = <<>>)
    /\ include_tree_view \/ output_method = "terminal"
    /\ IF include_only /\ catgitinclude_enabled
       THEN /\ included_files' = get_included_files(fs, compiled_catgitinclude_patterns)
            /\ included_dirs' = get_included_dirs(fs, compiled_catgitinclude_patterns)
       ELSE /\ included_files' = NoneValue
            /\ included_dirs' = NoneValue
    /\ LET st == Unwind(Call(<<>>, <<>>))
       IN  /\ stack' = st
           /\ pc' = IF st = <<>> THEN "collect" ELSE "walk"
    /\ listed' = {<<>>}
    /\ UNCHANGED <<inputs, message, tree_output, futures, collected,
                   concatenated_output, sample_result, overtaken, output>>

\* Lines 481-508 when the condition of line 508 is false: the include sets are
\* computed and concatenate_and_generate_tree is not called.
MainSkip ==
    /\ pc = "start"
    /\ ~(include_only /\ catgitinclude_enabled /\ compiled_catgitinclude_patterns = <<>>)
    /\ ~(include_tree_view \/ output_method = "terminal")
    /\ IF include_only /\ catgitinclude_enabled
       THEN /\ included_files' = get_included_files(fs, compiled_catgitinclude_patterns)
            /\ included_dirs' = get_included_dirs(fs, compiled_catgitinclude_patterns)
       ELSE /\ included_files' = NoneValue
            /\ included_dirs' = NoneValue
    /\ pc' = "skipped"
    /\ UNCHANGED <<inputs, message, stack, listed, tree_output, futures, collected,
                   concatenated_output, sample_result, overtaken, output>>

-----------------------------------------------------------------------------
(* One iteration of traverse's loop, with the calls that return after it.  *)
(* The connector "L" stands for the corner glyph and "T" for the tee; the  *)
(* prefix grows by four blanks under a last entry and by a vertical guide  *)
(* and three blanks under any other.                                       *)

TraverseStep ==
    /\ pc = "walk"
    /\ LET top       == Last(stack)
           entry     == top.entries[top.index]
           rel       == top.current \o <<entry>>
           is_last   == top.index = Len(top.entries)
           connector == IF is_last THEN "L" ELSE "T"
           outcome   == StepOutcome(rel)
           advanced  == [stack EXCEPT ![Len(stack)].index = top.index + 1]
           child     == top.prefix \o <<IF is_last THEN "    " ELSE "|   ">>
       IN  IF outcome = "type_error"
           THEN /\ pc' = "crashed"
                /\ UNCHANGED <<stack, listed, tree_output, futures>>
           ELSE /\ tree_output' = tree_output \o StepLines(outcome, top.prefix, connector, rel)
                /\ futures' = IF outcome = "text" THEN submit(futures, rel) ELSE futures
                /\ listed' = IF outcome = "directory" /\ CallLists(rel)
                             THEN listed \cup {rel} ELSE listed
                /\ LET st == Unwind(IF outcome = "directory"
                                    THEN advanced \o Call(rel, child) ELSE advanced)
                   IN  /\ stack' = st
                       /\ pc' = IF st = <<>> THEN "collect" ELSE "walk"
    /\ UNCHANGED <<inputs, included_files, included_dirs, message, collected,
                   concatenated_output, sample_result, overtaken, output>>

-----------------------------------------------------------------------------
(* The worker pool *)

Running(futs) == {i \in DOMAIN futs : futs[i].state = "running"}

Queued(futs) == {i \in DOMAIN futs : futs[i].state = "queued"}

\* Whether a worker thread is free to take the next task of the queue.
WorkerFreeUnbounded(futs) == TRUE

WorkerFree(futs) == Cardinality(Running(futs)) < max_workers

PoolAlive == pc \in {"walk", "collect"}

\* A worker takes the oldest queued task and opens its file.
WorkerStart ==
    /\ PoolAlive
    /\ Queued(futures) # {}
    /\ WorkerFree(futures)
    /\ LET i == CHOOSE k \in Queued(futures) : \A j \in Queued(futures) : k <= j
       IN  futures' = [futures EXCEPT ![i].state = "running"]
    /\ UNCHANGED <<inputs, included_files, included_dirs, pc, message, stack, listed,
                   tree_output, collected, concatenated_output, sample_result, overtaken, output>>

\* A running task returns: process_file's block, or its SKIPPED block.
WorkerFinish ==
    /\ PoolAlive
    /\ \E i \in Running(futures) :
          /\ futures' = [futures EXCEPT ![i].state = "done",
                                        ![i].result = process_file(fs, failing, futures[i].path)]
          /\ overtaken' = (overtaken \/ \E j \in 1..(i - 1) : futures[j].state # "done")
    /\ UNCHANGED <<inputs, included_files, included_dirs, pc, message, stack, listed,
                   tree_output, collected, concatenated_output, sample_result, output>>

-----------------------------------------------------------------------------
(* Lines 378-385: the collection loop and the return *)

\* The collection loop follows the call traverse(path, relative_path=''): it
\* runs once the outermost call has returned.
WalkReturnedOrRunning == pc \in {"walk", "collect"}

WalkReturned == pc = "collect"

\* The futures whose result the loop may take next.
NextFutureAnyDone(futs, n) == {i \in (n + 1)..Len(futs) : futs[i].state = "done"}

NextFuture(futs, n) == {i \in {n + 1} : i <= Len(futs) /\ futs[i].state = "done"}

Collect ==
    /\ WalkReturned
    /\ \E i \in NextFuture(futures, collected) :
          \* future.result() re-raises the task's exception: logged, nothing appended
          concatenated_output' = IF futures[i].result.raised THEN concatenated_output
                                 ELSE Append(concatenated_output, futures[i].result)
    /\ collected' = collected + 1
    /\ UNCHANGED <<inputs, included_files, included_dirs, pc, message, stack, listed,
                   tree_output, futures, sample_result, overtaken, output>>

Return ==
    /\ pc = "collect"
    /\ collected = Len(futures)
    /\ pc' = "returned"
    /\ UNCHANGED <<inputs, included_files, included_dirs, message, stack, listed,
                   tree_output, futures, collected, concatenated_output, sample_result, overtaken, output>>

\* Lines 528-556: the overview line, the tree under its header if
\* include_tree_view, then the concatenated blocks; printed or written to the
\* file the editor opens.  Without the call of line 509 tree_view and
\* concatenated_output are the empty strings of lines 506-507.
Emit ==
    /\ pc \in {"returned", "skipped"}
    /\ output' =
          [tree_header |-> IF ~include_tree_view THEN ""
                           ELSE IF include_only THEN "Directory structure (include-only mode):"
                           ELSE "Directory structure:",
           tree_view   |-> IF include_tree_view THEN tree_output ELSE <<>>,
           content     |-> concatenated_output]
    /\ pc' = "emitted"
    /\ UNCHANGED <<inputs, included_files, included_dirs, message, stack, listed,
                   tree_output, futures, collected, concatenated_output,
                   sample_result, overtaken>>

-----------------------------------------------------------------------------
(* The classifier on its own: is_text_file applied to one file. *)

SampleBytes == {0, 9, 31, 32, 126, 127}

SampleCounts == {3, 7, 307, 717, 1024}

SampleRuns == {Run(b, k) : b \in SampleBytes, k \in SampleCounts}

SampleContents == UNION {[1..k -> SampleRuns] : k \in 0..MaxRuns}

InitClassify ==
    /\ \E c \in SampleContents :
          fs \in {SampleFS(File(c)), SampleFS(UnreadableFile(c))}
    /\ failing = {}
    /\ include_only = FALSE
    /\ catgitinclude_enabled = TRUE
    /\ compiled_catgitinclude_patterns = <<>>
    /\ cwd_at_root = TRUE
    /\ compiled_catgit_patterns = <<>>
    /\ ignored_git_files = {}
    /\ ignore_gitignored = TRUE
    /\ display_gitignored_files = TRUE
    /\ display_catgitignored_files = TRUE
    /\ markup_catgitignored_files = TRUE
    /\ always_exclude_dirs = DefaultExcludeDirs
    /\ include_tree_view = TRUE
    /\ output_method = "terminal"
    /\ pc = "classify"
    /\ Idle

Classify ==
    /\ pc = "classify"
    /\ sample_result' = IF is_text_file(fs[<<"a.txt">>]) THEN "text" ELSE "binary"
    /\ pc' = "classified"
    /\ UNCHANGED <<inputs, included_files, included_dirs, message, stack, listed,
                   tree_output, futures, collected, concatenated_output, overtaken, output>>

NextClassify == Classify

SpecClassify == InitClassify /\ [][NextClassify]_vars

-----------------------------------------------------------------------------
Next ==
    \/ MainAbort
    \/ MainStart
    \/ MainSkip
    \/ TraverseStep
    \/ WorkerStart
    \/ WorkerFinish
    \/ Collect
    \/ Return
    \/ Emit

Spec == Init /\ [][Next]_vars

\* main and the walk are sequential code and the pool's threads run whenever
\* they have work; a file read that has started terminates.
Fairness ==
    /\ WF_vars(MainAbort)
    /\ WF_vars(MainStart)
    /\ WF_vars(TraverseStep)
    /\ WF_vars(WorkerStart)
    /\ WF_vars(WorkerFinish)
    /\ WF_vars(Collect)
    /\ WF_vars(Return)
    /\ WF_vars(MainSkip)
    /\ WF_vars(Emit)

\* The invocations whose progress is checked: the project tree under every
\* include-only set-up, with the ignore rules at their defaults.
InitLive ==
    /\ \E t \in TreeChoices : fs = t[1] /\ failing = t[2]
    /\ \E c \in IncludeChoices :
          /\ include_only = c[1]
          /\ catgitinclude_enabled = c[2]
          /\ compiled_catgitinclude_patterns = c[3]
    /\ cwd_at_root = TRUE
    /\ compiled_catgit_patterns \in {<<>>, <<PatLog>>}
    /\ ignored_git_files = {}
    /\ ignore_gitignored = TRUE
    /\ display_gitignored_files = TRUE
    /\ display_catgitignored_files = TRUE
    /\ markup_catgitignored_files = TRUE
    /\ always_exclude_dirs = DefaultExcludeDirs
    /\ include_tree_view \in Bool
    /\ output_method \in OutputMethods
    /\ pc = "start"
    /\ Idle

SpecFair == InitLive /\ [][Next]_vars /\ Fairness

-----------------------------------------------------------------------------
(* Properties *)

BlockPaths == [i \in DOMAIN concatenated_output |-> concatenated_output[i].path]

FuturePaths == [i \in DOMAIN futures |-> futures[i].path]

LinePaths == {tree_output[i].path : i \in DOMAIN tree_output}

\* The order in which a depth-first walk over sorted listings meets two paths.
WalkBefore(p, q) ==
    \/ IsProperPrefix(p, q)
    \/ \E k \in 1..Len(p) :
          /\ k <= Len(q)
          /\ SubSeq(p, 1, k - 1) = SubSeq(q, 1, k - 1)
          /\ Rank(p[k]) < Rank(q[k])

\* C1: when concatenate_and_generate_tree returns, the blocks of the content
\* are in submission order, which is the order of the sorted walk, whatever
\* order the workers completed in; each block is the one the inputs determine.
C1_SubmissionOrder ==
    pc = "returned" =>
        /\ BlockPaths = FuturePaths
        /\ \A i, j \in DOMAIN concatenated_output :
              i < j => WalkBefore(concatenated_output[i].path, concatenated_output[j].path)
        /\ \A i \in DOMAIN concatenated_output :
              concatenated_output[i]
                  = Block(futures[i].path, futures[i].path \in failing,
                          IF futures[i].path \in failing THEN 0
                          ELSE ByteLen(fs[futures[i].path].content))

\* C1 witness: a returned run of three or more blocks in which a later task
\* completed before an earlier one.
C1_Witness ==
    pc = "returned" /\ overtaken /\ Len(concatenated_output) >= 3

HasBlock(p) == \E i \in DOMAIN concatenated_output : concatenated_output[i].path = p

HasPlainLine(p) ==
    \E i \in DOMAIN tree_output : tree_output[i].path = p /\ tree_output[i].note = ""

\* C2: after the return a file has a content block exactly when it has a tree
\* line without the binary annotation and without an ignored marker.
C2_TreeContentConsistency ==
    pc = "returned" =>
        \A p \in DOMAIN fs : IsFile(fs, p) => (HasBlock(p) <=> HasPlainLine(p))

\* C2 witness: a returned run whose tree has a plain file line, a binary line
\* and an ignored line, under include-only mode or not.
C2_Witness ==
    /\ pc = "returned"
    /\ concatenated_output # <<>>
    /\ \E i \in DOMAIN tree_output : tree_output[i].note = "[Binary/Non-text]"
    /\ \E i \in DOMAIN tree_output : tree_output[i].note = "# (catgit-ignored)"
    /\ \E i \in DOMAIN tree_output : tree_output[i].note = "# (Git-ignored)"

\* The path lies in or under a directory whose basename is always excluded.
HardExcluded(p) ==
    \E k \in 1..Len(p) : IsDir(fs, SubSeq(p, 1, k)) /\ p[k] \in always_exclude_dirs

\* C3: an always-excluded directory and everything under it has no tree line,
\* no submitted task and no content block, and is never listed.
C3_HardExcludedAbsent ==
    \A p \in DOMAIN fs :
        HardExcluded(p) =>
            /\ p \notin LinePaths
            /\ p \notin Range(FuturePaths)
            /\ p \notin Range(BlockPaths)
            /\ p \notin listed

\* C3 witness: a finished walk of a tree with an excluded directory whose
\* file the allow-list names and whose siblings were rendered.
C3_Witness ==
    /\ pc = "returned"
    /\ include_only
    /\ <<"build", "x.txt">> \in included_files
    /\ <<"build">> \in included_dirs
    /\ <<"a.txt">> \in LinePaths

\* C4: in include-only mode every file of the tree or the content is in
\* included_files, and every directory entry of the tree or listed by the walk
\* is in included_dirs.
C4_IncludeOnlyMembers ==
    include_only =>
        /\ \A i \in DOMAIN tree_output :
              IF tree_output[i].slash
              THEN tree_output[i].path \in included_dirs
              ELSE tree_output[i].path \in included_files
        /\ \A i \in DOMAIN futures : futures[i].path \in included_files
        /\ \A i \in DOMAIN concatenated_output : concatenated_output[i].path \in included_files
        /\ \A d \in listed \ {<<>>} : d \in included_dirs

\* C4 witness: an include-only run that rendered docs/ and docs/main.py and
\* passed the unmatched a.txt and docs/debug.log by.
C4_Witness ==
    /\ pc = "returned"
    /\ include_only
    /\ included_files = {<<"docs", "main.py">>}
    /\ LinePaths = {<<"docs">>, <<"docs", "main.py">>}
    /\ BlockPaths = << <<"docs", "main.py">> >>

\* Include-only mode was requested and no allow-list pattern was resolved.
NoPatternsResolved ==
    include_only /\ (~catgitinclude_enabled \/ compiled_catgitinclude_patterns = <<>>)

\* C5: whenever include-only mode is requested and no allow-list pattern is
\* resolved, the invocation stops before the traversal starts, with a message
\* to the user, and produces no tree text and no content.
C5_AbortBeforeTraversal ==
    NoPatternsResolved =>
        /\ pc \in {"start", "aborted"}
        /\ pc = "aborted" => message # ""
        /\ listed = {}
        /\ tree_output = <<>>
        /\ concatenated_output = <<>>

\* The sample is_text_file reads, and the share of text bytes in it, counted
\* byte class by byte class.
SampleOf(p) == Take(fs[p].content, SampleSize)

TextBytes == {7, 8, 9, 10, 12, 13, 27} \cup {b \in 0..255 : b >= 32 /\ b <= 126}

TextByteCount(content) ==
    SumSeq([i \in DOMAIN content |-> IF content[i].byte \in TextBytes THEN content[i].n ELSE 0])

\* C6: a readable file is classified as text exactly when its sample is empty
\* or strictly more than 70% of the sample's bytes are text bytes.
C6_ClassifierThreshold ==
    (pc = "classified" /\ fs[<<"a.txt">>].readable) =>
        LET sample == SampleOf(<<"a.txt">>)
        IN  (sample_result = "text")
                <=> (ByteLen(sample) = 0 \/ 10 * TextByteCount(sample) > 7 * ByteLen(sample))

\* C6 witness: a readable sample of ten bytes, exactly seven of them text
\* bytes, was classified binary.
C6_Witness ==
    /\ pc = "classified"
    /\ fs[<<"a.txt">>].readable
    /\ ByteLen(SampleOf(<<"a.txt">>)) = 10
    /\ TextByteCount(SampleOf(<<"a.txt">>)) = 7
    /\ sample_result = "binary"

\* The secondary-ignore match of an entry: its root-relative path, with a
\* trailing separator when the entry is a directory, against the patterns.
SecondaryMatched(p) ==
    AnyMatch(compiled_catgit_patterns,
             IF IsDir(fs, p) THEN PathTokens(p) \o <<"/">> ELSE PathTokens(p))

VcsIgnored(p) == ignore_gitignored /\ p \in ignored_git_files

\* The entry was met by the walk and passed the exclusion list and the
\* allow-list, so the ignore rules decided about it.
ReachedIgnoreRules(p) ==
    /\ Front(p) \in listed
    /\ Front(p) = <<>> \/ fs[Front(p)].listable
    /\ ~HardExcluded(p)
    /\ include_only => (p \in included_files \/ p \in included_dirs)

LinesOf(p) == {i \in DOMAIN tree_output : tree_output[i].path = p}

\* C7: an entry that is VCS-ignored or matched by a secondary-ignore pattern
\* contributes no content block; a directory among them is never listed, and
\* nothing under it appears in the tree or the content; when the walk is over
\* and the display toggle of its rule is on, the entry has exactly one line,
\* and that line carries its ignored marker.
C7_IgnoredNeverRead ==
    \A p \in DOMAIN fs :
        (VcsIgnored(p) \/ SecondaryMatched(p)) =>
            /\ p \notin Range(FuturePaths)
            /\ p \notin listed
            /\ \A q \in DOMAIN fs :
                  IsProperPrefix(p, q) => q \notin LinePaths /\ q \notin Range(FuturePaths)
            /\ (pc = "returned" /\ ReachedIgnoreRules(p)
                  /\ (IF VcsIgnored(p) THEN display_gitignored_files
                      ELSE display_catgitignored_files)) =>
                  /\ Cardinality(LinesOf(p)) = 1
                  /\ \A i \in LinesOf(p) :
                        tree_output[i].note = IF VcsIgnored(p) THEN "# (Git-ignored)"
                                              ELSE "# (catgit-ignored)"

\* C8: the line of a secondary-ignored entry carries the ignored annotation
\* exactly when markup_catgitignored_files is set, whatever the display toggle.
C8_MarkupIndependent ==
    \A i \in DOMAIN tree_output :
        (~VcsIgnored(tree_output[i].path)
            /\ is_catgit_ignored(tree_output[i].path, compiled_catgit_patterns)) =>
            (tree_output[i].note = "# (catgit-ignored)" <=> markup_catgitignored_files)

\* C9: a read that fails inside process_file leaves a SKIPPED block in the
\* file's submission position, every other task yields its normal block, the
\* failed file keeps its plain tree line, and the call returns normally.
C9_ReadFailureContained ==
    /\ pc = "returned" =>
          /\ Len(concatenated_output) = Len(futures)
          /\ \A i \in DOMAIN futures :
                /\ i \in DOMAIN concatenated_output
                /\ concatenated_output[i].path = futures[i].path
                /\ concatenated_output[i].skipped = (futures[i].path \in failing)
                /\ ~concatenated_output[i].raised
                /\ HasPlainLine(futures[i].path)
    /\ pc = "crashed" => futures = <<>>

\* C9 witness: a returned run in which one submitted file failed to read and
\* the files before and after it were read.
C9_Witness ==
    /\ pc = "returned"
    /\ \E i \in DOMAIN concatenated_output :
          /\ concatenated_output[i].skipped
          /\ i > 1 /\ ~concatenated_output[i - 1].skipped
          /\ i < Len(concatenated_output) /\ ~concatenated_output[i + 1].skipped

\* C10: at most max_workers tasks run at any moment.
C10_BoundedConcurrency ==
    Cardinality(Running(futures)) <= max_workers

\* C10 witness: every worker is busy and a submitted task waits in the queue.
C10_Witness ==
    /\ Cardinality(Running(futures)) = max_workers
    /\ Queued(futures) # {}

\* C11: a step of the walk that submits a task leaves the task queued and
\* every earlier future as it was (the walk has not waited for it); while the
\* walk runs no result has been collected; once traverse has returned the tree
\* text no longer changes, whether or not a task has finished.
C11_WalkNeverWaits ==
    /\ [](pc = "walk" => collected = 0 /\ concatenated_output = <<>>)
    /\ [][(Len(futures') > Len(futures)) =>
             (/\ Last(futures').state = "queued"
              /\ SubSeq(futures', 1, Len(futures)) = futures
              /\ collected' = 0)]_vars
    /\ [][(pc \in {"collect", "returned"}) => (tree_output' = tree_output)]_vars

\* C11 witness: traverse has returned with the tree built and three or more
\* tasks submitted, none of which has finished or been collected.
C11_Witness ==
    /\ pc = "collect"
    /\ Len(futures) >= 3
    /\ \A i \in DOMAIN futures : futures[i].state # "done"
    /\ collected = 0
    /\ Len(tree_output) >= Len(futures)

\* The call of concatenate_and_generate_tree is in progress.
InCall == pc \in {"walk", "collect"}

ExactlyOnce ==
    /\ collected = Len(futures)
    /\ Len(concatenated_output) = Len(futures)
    /\ \A i \in DOMAIN futures :
          Cardinality({j \in DOMAIN concatenated_output :
                          concatenated_output[j].path = futures[i].path}) = 1

\* C12: with every started read terminating, a call of
\* concatenate_and_generate_tree eventually returns, and at the return every
\* submitted task has been collected exactly once: one block per submitted
\* file, none lost and none duplicated.
C12_ReturnsWithEveryTask ==
    /\ InCall ~> (pc = "returned")
    /\ [](pc = "returned" => ExactlyOnce)

\* The entry was met by a call of traverse: its directory was listed.
Visited(p) ==
    /\ Front(p) \in listed
    /\ Front(p) = <<>> \/ fs[Front(p)].listable

\* The first rule, in the fixed order, that applies to an entry.
FirstRule(p) ==
    IF IsDir(fs, p) /\ Last(p) \in always_exclude_dirs THEN "hard-excluded"
    ELSE IF include_only /\ p \notin included_files /\ p \notin included_dirs
         THEN "not-in-allow-list"
    ELSE IF VcsIgnored(p) THEN "vcs-ignored"
    ELSE IF SecondaryMatched(p) THEN "secondary-ignored"
    ELSE "admitted"

NotesOf(p) == {tree_output[i].note : i \in LinesOf(p)}

\* What an entry of each outcome leaves in the tree, the pool and the walk.
OutcomeShown(p, rule) ==
    CASE rule \in {"hard-excluded", "not-in-allow-list"} ->
             /\ LinesOf(p) = {}
             /\ p \notin Range(FuturePaths)
             /\ p \notin listed
      [] rule = "vcs-ignored" ->
             /\ Cardinality(LinesOf(p)) = IF display_gitignored_files THEN 1 ELSE 0
             /\ NotesOf(p) \subseteq {"# (Git-ignored)"}
             /\ p \notin Range(FuturePaths)
             /\ p \notin listed
      [] rule = "secondary-ignored" ->
             /\ Cardinality(LinesOf(p)) = IF display_catgitignored_files THEN 1 ELSE 0
             /\ NotesOf(p) \subseteq {"# (catgit-ignored)"}
             /\ p \notin Range(FuturePaths)
             /\ p \notin listed
      [] rule = "admitted" ->
             IF IsDir(fs, p)
             THEN NotesOf(p) = {""} /\ Cardinality(LinesOf(p)) = 1
             ELSE IF Last(p) \in files_to_skip
                  THEN LinesOf(p) = {} /\ p \notin Range(FuturePaths)
                  ELSE /\ Cardinality(LinesOf(p)) = 1
                       /\ NotesOf(p) \subseteq {"", "[Binary/Non-text]"}
                       /\ (p \in Range(FuturePaths)) <=> (NotesOf(p) = {""})

\* C13: when the walk is over every visited entry shows the outcome of the
\* first applicable rule in the order hard-excluded, not-in-allow-list,
\* VCS-ignored, secondary-ignored, admitted, and has at most one tree line.
C13_FirstApplicableRule ==
    pc = "returned" =>
        \A p \in DOMAIN fs :
            Visited(p) =>
                /\ Cardinality(LinesOf(p)) <= 1
                /\ OutcomeShown(p, FirstRule(p))

\* The line is the last one rendered among the entries of its directory.
LastRendered(i) ==
    \A j \in DOMAIN tree_output :
        j > i => Front(tree_output[j].path) # Front(tree_output[i].path)

\* The prefix the lines directly under the directory of line i must carry.
ChildPrefix(i) ==
    tree_output[i].prefix \o <<IF LastRendered(i) THEN "    " ELSE "|   ">>

\* C14: in the finished tree the last rendered sibling of every level has the
\* corner connector and every other rendered sibling the tee, and the lines
\* under a subdirectory continue the vertical guide exactly when the
\* subdirectory is not the last rendered sibling.
C14_Connectors ==
    pc = "returned" =>
        \A i \in DOMAIN tree_output :
            /\ tree_output[i].connector = IF LastRendered(i) THEN "L" ELSE "T"
            /\ Len(tree_output[i].path) = 1 => tree_output[i].prefix = <<>>
            /\ \A j \in DOMAIN tree_output :
                  Front(tree_output[j].path) = tree_output[i].path =>
                      tree_output[j].prefix = ChildPrefix(i)

\* C15: for every entry that comes to the secondary-ignore check, the check
\* answers as the patterns match its root-relative path, with a trailing
\* separator for a directory and bare for a file, wherever the process's
\* working directory is: the entry is treated as secondary-ignored exactly
\* when that match succeeds.
C15_SecondaryMatchRootRelative ==
    pc = "returned" =>
        \A p \in DOMAIN fs :
            (ReachedIgnoreRules(p) /\ ~VcsIgnored(p)) =>
                IF SecondaryMatched(p)
                THEN OutcomeShown(p, "secondary-ignored")
                ELSE OutcomeShown(p, "admitted")

\* The rule the loop body takes for an entry, under the names of the outcomes.
RuleTaken(p) ==
    IF IsDir(fs, p) /\ Last(p) \in always_exclude_dirs THEN "hard-excluded"
    ELSE CASE StepOutcome(p) = "not_included"   -> "not-in-allow-list"
           [] StepOutcome(p) = "git_ignored"    -> "vcs-ignored"
           [] StepOutcome(p) = "catgit_ignored" -> "secondary-ignored"
           [] OTHER                             -> "admitted"

\* Directories whose listing the walk asked for and did not get.
FailedListings == {d \in listed \ {<<>>} : ~fs[d].listable}

\* C16: below a directory whose listing failed there is no tree line, no task
\* and no block; what was rendered, submitted or collected stays; when the
\* walk is over every entry of every directory that could be listed, the
\* siblings and ancestors of the failed one among them, has been processed as
\* its rule says; the invocation has not crashed.
C16_ListingFailureContained ==
    /\ [](\A d \in FailedListings :
             /\ \A q \in DOMAIN fs :
                   IsProperPrefix(d, q) =>
                       /\ q \notin LinePaths
                       /\ q \notin Range(FuturePaths)
                       /\ q \notin Range(BlockPaths)
             /\ pc # "crashed"
             /\ pc = "returned" =>
                   \A p \in DOMAIN fs : Visited(p) => OutcomeShown(p, RuleTaken(p)))
    /\ [][/\ IsPrefix(tree_output, tree_output')
          /\ IsPrefix(FuturePaths, [i \in DOMAIN futures' |-> futures'[i].path])
          /\ IsPrefix(concatenated_output, concatenated_output')]_vars

\* C16 witness: docs/src could not be listed; its own line, the sibling
\* docs/x.txt after it and x.txt after its parent were rendered and read.
C16_Witness ==
    /\ pc = "returned"
    /\ <<"docs", "src">> \in FailedListings
    /\ HasPlainLine(<<"docs", "src">>)
    /\ LinesOf(<<"docs", "debug.log">>) # {}
    /\ HasBlock(<<"docs", "x.txt">>)
    /\ HasBlock(<<"x.txt">>)

\* The text files the rules admit: every directory above them is admitted and
\* can be listed, and the file itself is admitted and classified as text.
\* Neither include_tree_view nor output_method occurs in the rules.
AdmittedTextFiles ==
    {p \in DOMAIN fs :
        /\ p # <<>>
        /\ IsFile(fs, p)
        /\ StepOutcome(p) = "text"
        /\ \A k \in 1..(Len(p) - 1) :
              LET d == SubSeq(p, 1, k)
              IN  RuleTaken(d) = "admitted" /\ fs[d].listable}

\* C17: whatever the output method and the include-tree-in-output toggle are,
\* the emitted output holds one content block for each admitted text file and
\* no other; the toggle decides only whether the tree text is in the output.
C17_ContentIndependentOfTreeToggle ==
    pc = "emitted" =>
        /\ {output.content[i].path : i \in DOMAIN output.content} = AdmittedTextFiles
        /\ Len(output.content) = Cardinality(AdmittedTextFiles)
        /\ (output.tree_view # <<>>) => include_tree_view

====
